---- MODULE Spec2Model ----
(***************************************************************************)
(* hookedup.List: a list subclass that calls pre- and post- hook functions *)
(* around the add, remove and replace operations.  A pre- hook may raise   *)
(* Abort to veto the action.  Indices are Python's (0-based, negative ones *)
(* count from the end); a TLA+ sequence s holds Python's s[i] at s[i + 1]. *)
(***************************************************************************)
EXTENDS Integers, Sequences, FiniteSets, TLC

\* ------------------------------------------------------------------ bounds
\* longest list the model builds
MaxLen == 3
\* an operation starts only while fewer than MaxAborts vetoes were counted
MaxAborts == 1

\* longest argument of extend / += and longest slice replacement
MaxArg == MaxLen - 1

\* the values stored in lists
Values == {0, 1}

\* ------------------------------------------------------- names of the hooks
PreNames == {"pre_add", "pre_remove", "pre_replace"}

PostNames == {"post_add", "post_remove", "post_replace"}

keywords == PreNames \cup PostNames

\* a hook that raises Abort when the item it is called for is v
AbortOn(v) == "abort_on_" \o ToString(v)

\* a hook that raises an exception other than Abort when the item is v
FailOn(v) == "fail_on_" \o ToString(v)

\* a hook that raises Abort while the container holds k items or more
\* (test.py hold_only_4_items)
HoldOnly(k) == "hold_only_" \o ToString(k) \o "_items"

\* what a registered callable does when called: "none" is the default no-op
\* lambda of the defaultdict, "ok" a function that returns, "abort" one that
\* raises Abort on every call, "fail" one that raises another exception on
\* every call, "pop_last" one that takes the last item out of the container
\* it is given, when there is one, and returns
Policies ==
    {"none", "ok", "abort", "fail", "pop_last"}
        \cup {AbortOn(v) : v \in Values} \cup {FailOn(v) : v \in Values}
        \cup {HoldOnly(k) : k \in 0..(MaxLen + 1)}

VARIABLES
    self,         \* the items of the hookedup.List
    hook,         \* self._hook: hook name -> policy of the callable
    abort_stats,  \* self._abort_stats: pre- hook name -> number of Aborts
    plain,        \* a plain list built from the items the container held before
                  \* the last call, after the same call (test.py self.list)
    last,         \* the last call: its arguments, what it saw and what came out
    count,        \* pre- hook name -> how often that hook has raised Abort
                  \* (test.py self.count of increment_and_abort)
    owner,        \* an object of a class that inherits PreventHookedupOverwriteReset
    iterator      \* the position of the list iterator of extend's for loop
                  \* while it runs over the container itself, Idle otherwise

vars == <<self, hook, abort_stats, plain, last, count, owner, iterator>>

\* no for loop over the container itself is running
Idle == -1

\* ------------------------------------------------------ python's list type
RECURSIVE SeqsUpTo(_, _)
SeqsUpTo(S, n) ==
    IF n = 0 THEN {<<>>}
    ELSE LET shorter == SeqsUpTo(S, n - 1)
         IN  shorter \cup {Append(s, v) : s \in {t \in shorter : Len(t) = n - 1}, v \in S}

\* s[i] for an index already checked to be in range
At(s, i) == IF i < 0 THEN s[i + Len(s) + 1] ELSE s[i + 1]

InRange(s, i) == i < Len(s) /\ i >= -Len(s)

NormIndex(s, i) == IF i < 0 THEN i + Len(s) ELSE i

\* list.__delitem__(i), i in range
list_delitem(s, i) ==
    LET k == NormIndex(s, i)
    IN  SubSeq(s, 1, k) \o SubSeq(s, k + 2, Len(s))

\* list.__setitem__(i, v), i in range
list_setitem(s, i, v) == [s EXCEPT ![NormIndex(s, i) + 1] = v]

\* list.insert(i, v): the index is clamped to [0, len]
list_insert(s, i, v) ==
    LET n == Len(s)
        j == IF i < 0 THEN i + n ELSE i
        k == IF j < 0 THEN 0 ELSE IF j > n THEN n ELSE j
    IN  SubSeq(s, 1, k) \o <<v>> \o SubSeq(s, k + 1, n)

Contains(s, v) == \E k \in 1..Len(s) : s[k] = v

\* list.index(v) for a value that is in the list (0-based)
FirstIndex(s, v) == (CHOOSE k \in 1..Len(s) : s[k] = v /\ \A j \in 1..(k - 1) : s[j] # v) - 1

\* list.remove(v), v in the list
list_remove(s, v) == list_delitem(s, FirstIndex(s, v))

\* an optional integer: <<>> is None, <<k>> is k
None == <<>>

Some(k) == <<k>>

slice(start, stop, step) == [start |-> start, stop |-> stop, step |-> step]

\* islice.step or 1
StepOr1(sl) == IF sl.step = None \/ sl.step = Some(0) THEN 1 ELSE sl.step[1]

\* slice.indices(n) for a slice whose step is not 0: <<start, stop, step>>
slice_indices(sl, n) ==
    LET step == IF sl.step = None THEN 1 ELSE sl.step[1]
        lower == IF step < 0 THEN -1 ELSE 0
        upper == IF step < 0 THEN n - 1 ELSE n
        Clamp(k) == IF k < 0
                    THEN (IF k + n < 0 THEN lower ELSE k + n)
                    ELSE (IF k >= n THEN upper ELSE k)
        start == IF sl.start = None THEN (IF step < 0 THEN upper ELSE lower)
                 ELSE Clamp(sl.start[1])
        stop == IF sl.stop = None THEN (IF step < 0 THEN lower ELSE upper)
                ELSE Clamp(sl.stop[1])
    IN  <<start, stop, step>>

\* len(range(start, stop, step))
RangeLen(r) ==
    IF r[3] > 0
    THEN (IF r[1] < r[2] THEN (r[2] - r[1] - 1) \div r[3] + 1 ELSE 0)
    ELSE (IF r[1] > r[2] THEN (r[1] - r[2] - 1) \div (-r[3]) + 1 ELSE 0)

\* list(range(start, stop, step))
Range(r) == [k \in 1..RangeLen(r) |-> r[1] + (k - 1) * r[3]]

\* s[sl] for a slice whose step is not 0
list_getslice(s, sl) ==
    LET r == Range(slice_indices(sl, Len(s)))
    IN  [k \in 1..Len(r) |-> At(s, r[k])]

\* the items of s at the positions (0-based) that are not in the set drop
Without(s, drop) ==
    LET F[k \in 0..Len(s)] ==
            IF k = 0 THEN <<>>
            ELSE IF (k - 1) \in drop THEN F[k - 1] ELSE Append(F[k - 1], s[k])
    IN  F[Len(s)]

\* seq repeated n times
RECURSIVE Repeat(_, _)
Repeat(s, n) == IF n <= 0 THEN <<>> ELSE s \o Repeat(s, n - 1)

SizeMismatch(nrepl, nslice) ==
    "attempt to assign sequence of size " \o ToString(nrepl)
        \o " to extended slice of size " \o ToString(nslice)

\* --------------------------------------------- the state of a running call
\* self and _abort_stats as the call sees them, the events so far, whether
\* the last pre- hook aborted, the exception leaving the call ("" = none)
\* and the value returned
Begin ==
    [self |-> self, stats |-> abort_stats, trace |-> <<>>, aborted |-> FALSE,
     exc |-> "", msg |-> "", retkind |-> "None", retval |-> 0, i |-> 0]

Event(name, seen, args) == [name |-> name, seen |-> seen, args |-> args]

\* a change of the backing storage (a call of a list method through super())
Mutate(st, items) ==
    [st EXCEPT !.self = items, !.trace = Append(@, Event("mutate", items, <<>>))]

Raise(st, exc, msg) == [st EXCEPT !.exc = exc, !.msg = msg]

Return(st, kind, val) == [st EXCEPT !.retkind = kind, !.retval = val]

\* what calling self._hook[hook_name](self, *args) raises: "" when it returns
HookRaises(hook_name, seen, args) ==
    LET policy == hook[hook_name]
    IN  IF policy \in {"none", "ok"} THEN ""
        ELSE IF policy = "abort" THEN "Abort"
        ELSE IF policy = "fail" THEN "HookError"
        ELSE IF policy = AbortOn(args[1]) THEN "Abort"
        ELSE IF policy = FailOn(args[1]) THEN "HookError"
        ELSE IF \E k \in 0..Len(seen) : policy = HoldOnly(k) THEN "Abort"
        ELSE ""

\* what the call self._hook[hook_name](self, *args) leaves in the container
HookLeaves(hook_name, seen) ==
    IF hook[hook_name] = "pop_last" /\ seen # <<>>
    THEN SubSeq(seen, 1, Len(seen) - 1)
    ELSE seen

\* super().__delitem__(i)
super_delitem(st, i) ==
    IF InRange(st.self, i) THEN Mutate(st, list_delitem(st.self, i))
    ELSE Raise(st, "IndexError", "list assignment index out of range")

\* super().__setitem__(i, v)
super_setitem(st, i, v) ==
    IF InRange(st.self, i) THEN Mutate(st, list_setitem(st.self, i, v))
    ELSE Raise(st, "IndexError", "list assignment index out of range")

\* super().pop(index), without the item it returns
super_pop(st, index) ==
    IF st.self = <<>> THEN Raise(st, "IndexError", "pop from empty list")
    ELSE IF ~InRange(st.self, index) THEN Raise(st, "IndexError", "pop index out of range")
    ELSE Mutate(st, list_delitem(st.self, index))

\* super().remove(item)
super_remove(st, item) ==
    IF Contains(st.self, item) THEN Mutate(st, list_remove(st.self, item))
    ELSE Raise(st, "ValueError", "list.remove(x): x not in list")

_call_post_hook_fxn(st, hook_name, args) ==
    LET called == [st EXCEPT !.trace = Append(@, Event(hook_name, st.self, args)),
                             !.self = HookLeaves(hook_name, st.self)]
        raised == HookRaises(hook_name, st.self, args)
    IN  IF raised = "" THEN called ELSE Raise(called, raised, "")

\* _hook_fxn_aborts without the except clause
_hook_fxn_aborts_uncaught(st, hook_name, args) ==
    LET called == [st EXCEPT !.trace = Append(@, Event(hook_name, st.self, args))]
        raised == HookRaises(hook_name, st.self, args)
    IN  IF raised = ""
        THEN [called EXCEPT !.aborted = FALSE]
        ELSE Raise(called, raised, "")

\* _hook_fxn_aborts with "except Exception" for "except Abort"
_hook_fxn_aborts_catching_all(st, hook_name, args) ==
    LET called == [st EXCEPT !.trace = Append(@, Event(hook_name, st.self, args))]
        raised == HookRaises(hook_name, st.self, args)
    IN  IF raised # ""
        THEN [called EXCEPT !.stats[hook_name] = @ + 1, !.aborted = TRUE]
        ELSE [called EXCEPT !.aborted = FALSE]

\* _hook_fxn_aborts that consults the counter: a hook that vetoed before is
\* taken to veto again and is not called
_hook_fxn_aborts_remembering(st, hook_name, args) ==
    LET called == [st EXCEPT !.trace = Append(@, Event(hook_name, st.self, args))]
        raised == HookRaises(hook_name, st.self, args)
    IN  IF st.stats[hook_name] > 0
        THEN [st EXCEPT !.aborted = TRUE]
        ELSE IF raised = "Abort"
        THEN [called EXCEPT !.stats[hook_name] = @ + 1, !.aborted = TRUE]
        ELSE IF raised = ""
        THEN [called EXCEPT !.aborted = FALSE]
        ELSE Raise(called, raised, "")

_hook_fxn_aborts(st, hook_name, args) ==
    LET called == [st EXCEPT !.trace = Append(@, Event(hook_name, st.self, args)),
                             !.self = HookLeaves(hook_name, st.self)]
        raised == HookRaises(hook_name, st.self, args)
    IN  IF raised = "Abort"
        THEN [called EXCEPT !.stats[hook_name] = @ + 1, !.aborted = TRUE]
        ELSE IF raised = ""
        THEN [called EXCEPT !.aborted = FALSE]
        ELSE Raise(called, raised, "")

_verify_index_bounds(st, index, fxn_name) ==
    LET length == Len(st.self)
    IN  IF length = 0 \/ index >= length \/ index < -length
        THEN Raise(st, "IndexError", fxn_name \o " index out of range")
        ELSE st

insert(st, index, item) ==
    LET pre == _hook_fxn_aborts(st, "pre_add", <<item>>)
    IN  IF pre.exc # "" THEN pre
        ELSE IF pre.aborted
        THEN _call_post_hook_fxn(Mutate(pre, list_insert(pre.self, index, item)),
                                 "post_add", <<item>>)
        ELSE pre

\* append with the test that insert makes: the item is added when pre_add
\* raises Abort and left out when it does not
append_inverted(st, item) ==
    LET pre == _hook_fxn_aborts(st, "pre_add", <<item>>)
    IN  IF pre.exc # "" THEN pre
        ELSE IF pre.aborted
        THEN _call_post_hook_fxn(Mutate(pre, Append(pre.self, item)),
                                 "post_add", <<item>>)
        ELSE pre

append(st, item) ==
    LET pre == _hook_fxn_aborts(st, "pre_add", <<item>>)
    IN  IF pre.exc # "" THEN pre
        ELSE IF ~pre.aborted
        THEN _call_post_hook_fxn(Mutate(pre, Append(pre.self, item)),
                                 "post_add", <<item>>)
        ELSE pre

\* pop that returns nothing when pre_remove vetoes
pop_returns_none_on_abort(st, index) ==
    LET ok == _verify_index_bounds(st, index, "pop")
        item == At(st.self, index)
        pre == _hook_fxn_aborts(ok, "pre_remove", <<item>>)
        post == _call_post_hook_fxn(Mutate(pre, list_delitem(pre.self, index)),
                                    "post_remove", <<item>>)
    IN  IF ok.exc # "" THEN ok
        ELSE IF pre.exc # "" THEN pre
        ELSE IF pre.aborted THEN pre
        ELSE IF post.exc # "" THEN post
        ELSE Return(post, "item", item)

\* pop that consults pre_remove before it checks the index
pop_hook_before_bounds(st, index) ==
    LET item == IF InRange(st.self, index) THEN At(st.self, index) ELSE 0
        pre == _hook_fxn_aborts(st, "pre_remove", <<item>>)
        ok == _verify_index_bounds(pre, index, "pop")
        post == _call_post_hook_fxn(Mutate(ok, list_delitem(ok.self, index)),
                                    "post_remove", <<item>>)
    IN  IF pre.exc # "" THEN pre
        ELSE IF ok.exc # "" THEN ok
        ELSE IF pre.aborted THEN Return(ok, "item", item)
        ELSE IF post.exc # "" THEN post
        ELSE Return(post, "item", item)

pop(st, index) ==
    LET ok == _verify_index_bounds(st, index, "pop")
        item == At(st.self, index)
        pre == _hook_fxn_aborts(ok, "pre_remove", <<item>>)
        popped == super_pop(pre, index)
        taken == At(pre.self, index)
        post == _call_post_hook_fxn(popped, "post_remove", <<taken>>)
    IN  IF ok.exc # "" THEN ok
        ELSE IF pre.exc # "" THEN pre
        ELSE IF pre.aborted THEN Return(pre, "item", item)
        ELSE IF popped.exc # "" THEN popped
        ELSE IF post.exc # "" THEN post
        ELSE Return(post, "item", taken)

remove(st, item) ==
    LET pre == _hook_fxn_aborts(st, "pre_remove", <<item>>)
        removed == super_remove(pre, item)
    IN  IF ~Contains(st.self, item)
        THEN Raise(st, "ValueError", "list.remove(x): x not in list")
        ELSE IF pre.exc # "" THEN pre
        ELSE IF ~pre.aborted
        THEN (IF removed.exc # "" THEN removed
              ELSE _call_post_hook_fxn(removed, "post_remove", <<item>>))
        ELSE pre

\* the while loop of clear, entered with index i
RECURSIVE clear_loop(_, _)
clear_loop(st, i) ==
    IF ~(i < Len(st.self)) THEN st
    ELSE LET item == At(st.self, i)
             pre == _hook_fxn_aborts(st, "pre_remove", <<item>>)
             deleted == super_delitem(pre, i)
             post == _call_post_hook_fxn(deleted, "post_remove", <<item>>)
         IN  IF pre.exc # "" THEN pre
             ELSE IF pre.aborted THEN clear_loop(pre, i + 1)
             ELSE IF deleted.exc # "" THEN deleted
             ELSE IF post.exc # "" THEN post
             ELSE clear_loop(post, i)

\* clear that removes from the last index down to index 0
clear_back_to_front(st) ==
    LET n == Len(st.self)
        F[k \in 0..n] ==
            IF k = 0 THEN st
            ELSE LET prev == F[k - 1]
                     item == At(prev.self, n - k)
                     pre == _hook_fxn_aborts(prev, "pre_remove", <<item>>)
                     post == _call_post_hook_fxn(
                                 Mutate(pre, list_delitem(pre.self, n - k)),
                                 "post_remove", <<item>>)
                 IN  IF prev.exc # "" THEN prev
                     ELSE IF pre.exc # "" \/ pre.aborted THEN pre
                     ELSE post
    IN  F[n]

clear(st) == clear_loop(st, 0)

\* the for loop of extend, at the k-th item
RECURSIVE extend_loop(_, _, _)
extend_loop(st, items, k) ==
    IF k > Len(items) THEN st
    ELSE LET added == append(st, items[k])
         IN  IF added.exc # "" THEN added ELSE extend_loop(added, items, k + 1)

\* items is [kind |-> the argument's type, val |-> its items when it is a list]
extend(st, items) ==
    IF items.kind # "list"
    THEN Raise(st, "TypeError", "'" \o items.kind \o "' object is not iterable")
    ELSE extend_loop(st, items.val, 1)

\* __iadd__ without its return statement: += evaluates to None
iadd_returning_none(st, items) == extend(st, items)

__iadd__(st, items) ==
    LET extended == extend(st, items)
    IN  IF extended.exc # "" THEN extended ELSE Return(extended, "self", 0)

\* the for loop of __imul__ that extends by a fresh copy of the container in
\* each round instead of the copy taken before the loop
RECURSIVE imul_loop_copying_each_round(_, _, _, _)
imul_loop_copying_each_round(st, original, i, multiplier) ==
    IF ~(i < multiplier) THEN st
    ELSE LET extended == extend(st, [kind |-> "list", val |-> st.self])
         IN  IF extended.exc # "" THEN extended
             ELSE imul_loop_copying_each_round(extended, original, i + 1, multiplier)

\* the for loop of __imul__, at i of range(1, multiplier)
RECURSIVE imul_loop(_, _, _, _)
imul_loop(st, original, i, multiplier) ==
    IF ~(i < multiplier) THEN st
    ELSE LET extended == extend(st, [kind |-> "list", val |-> original])
         IN  IF extended.exc # "" THEN extended
             ELSE imul_loop(extended, original, i + 1, multiplier)

\* multiplier is [kind |-> the argument's type, val |-> its value]
__imul__(st, multiplier) ==
    IF multiplier.kind # "int"
    THEN Raise(st, "TypeError",
               "'" \o multiplier.kind \o "'object cannot be interpreted as an integer")
    ELSE IF multiplier.val <= 0
    THEN LET cleared == clear(st)
         IN  IF cleared.exc # "" THEN cleared ELSE Return(cleared, "None", 0)
    ELSE LET repeated == imul_loop(st, st.self, 1, multiplier.val)
         IN  IF repeated.exc # "" THEN repeated ELSE Return(repeated, "self", 0)

\* __delitem__ with type(index) == int
delitem_int(st, index) ==
    LET ok == _verify_index_bounds(st, index, "list assignment")
        item == At(st.self, index)
        pre == _hook_fxn_aborts(ok, "pre_remove", <<item>>)
        deleted == super_delitem(pre, index)
    IN  IF ok.exc # "" THEN ok
        ELSE IF pre.exc # "" THEN pre
        ELSE IF ~pre.aborted
        THEN (IF deleted.exc # "" THEN deleted
              ELSE _call_post_hook_fxn(deleted, "post_remove", <<item>>))
        ELSE pre

\* integer assignment that calls post_replace before it changes the storage
setitem_int_post_first(st, index, replacement) ==
    LET ok == _verify_index_bounds(st, index, "list assignment")
        item == At(st.self, index)
        pre == _hook_fxn_aborts(ok, "pre_replace", <<item, replacement>>)
        post == _call_post_hook_fxn(pre, "post_replace", <<item, replacement>>)
    IN  IF ok.exc # "" THEN ok
        ELSE IF pre.exc # "" THEN pre
        ELSE IF ~pre.aborted
        THEN (IF post.exc # "" THEN post
              ELSE Mutate(post, list_setitem(post.self, index, replacement)))
        ELSE pre

\* __setitem__ with type(index) == int
setitem_int(st, index, replacement) ==
    LET ok == _verify_index_bounds(st, index, "list assignment")
        item == At(st.self, index)
        pre == _hook_fxn_aborts(ok, "pre_replace", <<item, replacement>>)
        assigned == super_setitem(pre, index, replacement)
    IN  IF ok.exc # "" THEN ok
        ELSE IF pre.exc # "" THEN pre
        ELSE IF ~pre.aborted
        THEN (IF assigned.exc # "" THEN assigned
              ELSE _call_post_hook_fxn(assigned, "post_replace", <<item, replacement>>))
        ELSE pre

\* _verify_slices_are_valid without the comparison of the two lengths
_verify_slices_any_length(st, index, list_slice, replacement_slice) ==
    IF index.step = Some(0)
    THEN Raise(st, "ValueError", "slice step cannot be zero")
    ELSE st

_verify_slices_are_valid(st, index, list_slice, replacement_slice) ==
    IF index.step # None /\ index.step # Some(1)
    THEN (IF index.step = Some(0)
          THEN Raise(st, "ValueError", "slice step cannot be zero")
          ELSE IF Len(list_slice) # Len(replacement_slice)
          THEN Raise(st, "ValueError",
                     SizeMismatch(Len(replacement_slice), Len(list_slice)))
          ELSE st)
    ELSE st

Min(a, b) == IF a < b THEN a ELSE b

Max(a, b) == IF a > b THEN a ELSE b

\* the for loop over zip(range(*slice_range), list_slice, replacement), at its
\* k-th triple of n; st.i is the loop's variable i
RECURSIVE replace_loop(_, _, _, _, _)
replace_loop(st, rng, replacement, k, n) ==
    IF k > n THEN st
    ELSE LET set == setitem_int(st, rng[k], replacement[k])
         IN  IF set.exc # "" THEN set
             ELSE replace_loop([set EXCEPT !.i = rng[k] + 1], rng, replacement, k + 1, n)

\* _replace_corresponding_items_in_both_slices without the i += 1 of its loop:
\* the result is the last index assigned, not the one after it
_replace_corresponding_without_increment(st, index, list_slice, replacement) ==
    LET slice_range == slice_indices(index, Len(st.self))
        rng == Range(slice_range)
        n == Min(Len(rng), Min(Len(list_slice), Len(replacement)))
        replaced == replace_loop([st EXCEPT !.i = slice_range[1]], rng, replacement, 1, n)
    IN  IF replaced.exc = "" /\ n > 0 THEN [replaced EXCEPT !.i = @ - 1] ELSE replaced

\* returns st with the function's result in st.i
_replace_corresponding_items_in_both_slices(st, index, list_slice, replacement) ==
    LET slice_range == slice_indices(index, Len(st.self))
        rng == Range(slice_range)
        n == Min(Len(rng), Min(Len(list_slice), Len(replacement)))
    IN  replace_loop([st EXCEPT !.i = slice_range[1]], rng, replacement, 1, n)

\* the for loop of _remove_remaining_items_in_list_slice with break for
\* continue: it ends at the first veto
RECURSIVE remove_loop_until_veto(_, _, _, _)
remove_loop_until_veto(st, step, i, todo) ==
    IF todo <= 0 THEN st
    ELSE IF ~InRange(st.self, i) THEN Raise(st, "IndexError", "list index out of range")
    ELSE LET item == At(st.self, i)
             pre == _hook_fxn_aborts(st, "pre_remove", <<item>>)
             post == _call_post_hook_fxn(Mutate(pre, list_delitem(pre.self, i)),
                                         "post_remove", <<item>>)
         IN  IF pre.exc # "" THEN pre
             ELSE IF pre.aborted THEN pre
             ELSE IF post.exc # "" THEN post
             ELSE remove_loop_until_veto(post, step,
                              IF step > 0 THEN i + step - 1 ELSE i + step, todo - 1)

\* the for loop of _remove_remaining_items_in_list_slice with todo rounds left
RECURSIVE remove_loop(_, _, _, _)
remove_loop(st, step, i, todo) ==
    IF todo <= 0 THEN st
    ELSE IF ~InRange(st.self, i) THEN Raise(st, "IndexError", "list index out of range")
    ELSE LET item == At(st.self, i)
             pre == _hook_fxn_aborts(st, "pre_remove", <<item>>)
             deleted == super_delitem(pre, i)
             post == _call_post_hook_fxn(deleted, "post_remove", <<item>>)
         IN  IF pre.exc # "" THEN pre
             ELSE IF pre.aborted THEN remove_loop(pre, step, i + step, todo - 1)
             ELSE IF deleted.exc # "" THEN deleted
             ELSE IF post.exc # "" THEN post
             ELSE remove_loop(post, step,
                              IF step > 0 THEN i + step - 1 ELSE i + step, todo - 1)

\* _remove_remaining_items_in_list_slice that takes every step for 1
_remove_remaining_with_unit_step(st, islice, i, overflow) ==
    remove_loop(st, 1, i, overflow)

_remove_remaining_items_in_list_slice(st, islice, i, overflow) ==
    remove_loop(st, StepOr1(islice), i, overflow)

\* the for loop of _add_remaining_items_in_replacement_slice at repl_index
RECURSIVE add_loop(_, _, _, _)
add_loop(st, i, repl_index, replacement) ==
    IF ~(repl_index < 0) THEN st
    ELSE LET item == At(replacement, repl_index)
             pre == _hook_fxn_aborts(st, "pre_add", <<item>>)
             post == _call_post_hook_fxn(Mutate(pre, list_insert(pre.self, i, item)),
                                         "post_add", <<item>>)
         IN  IF pre.exc # "" THEN pre
             ELSE IF pre.aborted THEN add_loop(pre, i, repl_index + 1, replacement)
             ELSE IF post.exc # "" THEN post
             ELSE add_loop(post, i + 1, repl_index + 1, replacement)

\* _add_remaining_items_in_replacement_slice that gives up at the first veto
RECURSIVE _add_remaining_until_veto(_, _, _, _)
_add_remaining_until_veto(st, i, overflow, replacement) ==
    IF ~(overflow < 0) THEN st
    ELSE LET item == At(replacement, overflow)
             pre == _hook_fxn_aborts(st, "pre_add", <<item>>)
             post == _call_post_hook_fxn(Mutate(pre, list_insert(pre.self, i, item)),
                                         "post_add", <<item>>)
         IN  IF pre.exc # "" \/ pre.aborted THEN pre
             ELSE IF post.exc # "" THEN post
             ELSE _add_remaining_until_veto(post, i + 1, overflow + 1, replacement)

_add_remaining_items_in_replacement_slice(st, i, overflow, replacement) ==
    add_loop(st, i, overflow, replacement)

\* __setitem__ with a slice as index
setitem_slice(st, index, replacement) ==
    IF index.step = Some(0)
    THEN Raise(st, "ValueError", "slice step cannot be zero")
    ELSE LET list_slice == list_getslice(st.self, index)
             ok == _verify_slices_are_valid(st, index, list_slice, replacement)
             replaced == _replace_corresponding_items_in_both_slices(
                             ok, index, list_slice, replacement)
             overflow == Len(list_slice) - Len(replacement)
         IN  IF ok.exc # "" THEN ok
             ELSE IF replaced.exc # "" THEN replaced
             ELSE IF overflow > 0
             THEN _remove_remaining_items_in_list_slice(replaced, index, replaced.i,
                                                        overflow)
             ELSE IF overflow < 0
             THEN _add_remaining_items_in_replacement_slice(replaced, replaced.i,
                                                            overflow, replacement)
             ELSE replaced

\* __delitem__ with a slice as index
delitem_slice(st, index) ==
    IF index.step = Some(0)
    THEN Raise(st, "ValueError", "slice step cannot be zero")
    ELSE LET list_slice == list_getslice(st.self, index)
             replaced == _replace_corresponding_items_in_both_slices(
                             st, index, list_slice, <<>>)
             overflow == Len(list_slice)
         IN  IF replaced.exc # "" THEN replaced
             ELSE _remove_remaining_items_in_list_slice(replaced, index, replaced.i,
                                                        overflow)

\* ------------------------------------------------- the plain list's methods
PlainBegin ==
    [self |-> self, exc |-> "", msg |-> "", retkind |-> "None", retval |-> 0]

plain_append(p, item) == [p EXCEPT !.self = Append(@, item)]

plain_insert(p, index, item) == [p EXCEPT !.self = list_insert(@, index, item)]

plain_pop(p, index) ==
    IF Len(p.self) = 0 THEN Raise(p, "IndexError", "pop from empty list")
    ELSE IF ~InRange(p.self, index) THEN Raise(p, "IndexError", "pop index out of range")
    ELSE Return([p EXCEPT !.self = list_delitem(@, index)], "item", At(p.self, index))

plain_remove(p, item) ==
    IF ~Contains(p.self, item) THEN Raise(p, "ValueError", "list.remove(x): x not in list")
    ELSE [p EXCEPT !.self = list_remove(@, item)]

plain_clear(p) == [p EXCEPT !.self = <<>>]

plain_extend(p, items) ==
    IF items.kind # "list"
    THEN Raise(p, "TypeError", "'" \o items.kind \o "' object is not iterable")
    ELSE [p EXCEPT !.self = @ \o items.val]

plain_iadd(p, items) ==
    LET extended == plain_extend(p, items)
    IN  IF extended.exc # "" THEN extended ELSE Return(extended, "self", 0)

plain_imul(p, multiplier) ==
    IF multiplier.kind # "int"
    THEN Raise(p, "TypeError",
               "'" \o multiplier.kind \o "' object cannot be interpreted as an integer")
    ELSE Return([p EXCEPT !.self = Repeat(@, multiplier.val)], "self", 0)

plain_delitem_int(p, index) ==
    IF ~InRange(p.self, index)
    THEN Raise(p, "IndexError", "list assignment index out of range")
    ELSE [p EXCEPT !.self = list_delitem(@, index)]

plain_setitem_int(p, index, replacement) ==
    IF ~InRange(p.self, index)
    THEN Raise(p, "IndexError", "list assignment index out of range")
    ELSE [p EXCEPT !.self = list_setitem(@, index, replacement)]

\* assignment of the items of rng (positions) from replacement, one by one
RECURSIVE AssignEach(_, _, _, _)
AssignEach(s, rng, replacement, k) ==
    IF k > Len(rng) THEN s
    ELSE AssignEach(list_setitem(s, rng[k], replacement[k]), rng, replacement, k + 1)

plain_setitem_slice(p, index, replacement) ==
    IF index.step = Some(0)
    THEN Raise(p, "ValueError", "slice step cannot be zero")
    ELSE LET r == slice_indices(index, Len(p.self))
             rng == Range(r)
             stop == IF r[2] < r[1] THEN r[1] ELSE r[2]
         IN  IF r[3] = 1
             THEN [p EXCEPT !.self = SubSeq(@, 1, r[1]) \o replacement
                                         \o SubSeq(@, stop + 1, Len(@))]
             ELSE IF Len(replacement) # Len(rng)
             THEN Raise(p, "ValueError", SizeMismatch(Len(replacement), Len(rng)))
             ELSE [p EXCEPT !.self = AssignEach(@, rng, replacement, 1)]

plain_delitem_slice(p, index) ==
    IF index.step = Some(0)
    THEN Raise(p, "ValueError", "slice step cannot be zero")
    ELSE LET rng == Range(slice_indices(index, Len(p.self)))
         IN  [p EXCEPT !.self = Without(@, {rng[k] : k \in 1..Len(rng)})]

\* ------------------------------------------------------ hook configurations
\* List() and List(**{}): every hook is the default no-op
NoHooks == [n \in keywords |-> "none"]

\* one policy for the three pre- hooks and one for the three post- hooks
Uniform(pre, post) == [n \in keywords |-> IF n \in PreNames THEN pre ELSE post]

\* hooks that count and return
Counting == Uniform("ok", "ok")

\* pre- hooks that always raise Abort, post- hooks that count
Vetoing == Uniform("abort", "ok")

\* post- hooks that raise Abort
PostAborting == Uniform("ok", "abort")

HookConfigs == {NoHooks, Counting, Vetoing, PostAborting}

\* hooks that decide item by item: pre_replace raises Abort for the items
\* equal to a, pre_remove and pre_add for those equal to b; post- hooks count
PerItem(a, b) ==
    [n \in keywords |->
        IF n = "pre_replace" THEN AbortOn(a)
        ELSE IF n \in PreNames THEN AbortOn(b)
        ELSE "ok"]

\* the list of test.py's setUp
setUp_original == <<0, 1, 2, 3>>

\* List(pre_add=hold_only_k_items): a pre_add hook that raises Abort while
\* the container holds k items or more, and no other hook
Hold(k) == [n \in keywords |-> IF n = "pre_add" THEN HoldOnly(k) ELSE "none"]

\* the capacities k: every one up to MaxLen, and the 4 of hold_only_4_items
Capacities == 0..MaxLen \cup {Len(setUp_original)}

HoldConfigs == {Hold(k) : k \in Capacities}

\* one hook takes the last item out of the container, no other hook is set
Reentrant(name) == [n \in keywords |-> IF n = name THEN "pop_last" ELSE "none"]

\* the hooks that answer a change by taking an item out
ReenterConfigs == {Reentrant(name) : name \in PostNames}

\* L2 of test_delitem_slice: pre_remove always raises Abort, no other hook
VetoRemoval == [n \in keywords |-> IF n = "pre_remove" THEN "abort" ELSE "none"]

\* hooks that raise an exception other than Abort: every post- hook, the
\* pre- hooks for the items equal to 1, and the post- hooks for the items
\* equal to 1 under pre- hooks that veto the items equal to 0
FailConfigs ==
    {Uniform("ok", "fail"), Uniform(FailOn(1), "ok"), Uniform(AbortOn(0), FailOn(1))}

\* pre_replace vetoes the items equal to 1, pre_remove and pre_add veto
\* either value (the two other choices are these with 0 and 1 exchanged)
VetoConfigs == {PerItem(1, b) : b \in Values}

\* ----------------------------------------------------------------- actions
Outcome(r) == [exc |-> r.exc, msg |-> r.msg, retkind |-> r.retkind, retval |-> r.retval]

NoArgs ==
    [index |-> 0, item |-> 0, islice |-> slice(None, None, None), items |-> <<>>,
     kind |-> "", multiplier |-> 0]

\* the vetoes after which no further call is explored: MaxAborts, under a
\* hook that holds a capacity as many more as one += of the list of setUp
\* can add (test_iadd applies += twice), and under hooks that veto by item
\* at least two, so that calls start with counters above zero
Budget ==
    IF hook \in HoldConfigs THEN MaxAborts + Len(setUp_original)
    ELSE IF hook \in VetoConfigs THEN Max(MaxAborts, 2)
    ELSE MaxAborts

\* a call starts while the abort counters are small
CanStart ==
    abort_stats["pre_add"] + abort_stats["pre_remove"] + abort_stats["pre_replace"]
        < Budget

\* how often the hook name raised Abort among the events of trace
AbortsRaised(trace, name) ==
    Cardinality({k \in 1..Len(trace) :
                    /\ trace[k].name = name
                    /\ HookRaises(name, trace[k].seen, trace[k].args) = "Abort"})

\* one call: r is the call on the container, p the same call on the plain list;
\* calls that leave the container longer than MaxLen and longer than it was
\* are not explored
Invoke(op, args, r, p) ==
    /\ CanStart
    /\ Len(r.self) <= MaxLen \/ Len(r.self) <= Len(self)
    /\ self' = r.self
    /\ abort_stats' = r.stats
    /\ plain' = p.self
    /\ last' = [op |-> op, args |-> args, pre |-> self, preStats |-> abort_stats,
                trace |-> r.trace, out |-> Outcome(r), plainOut |-> Outcome(p)]
    /\ count' = [n \in PreNames |-> count[n] + AbortsRaised(r.trace, n)]
    /\ UNCHANGED <<hook, iterator>>

\* a call on a container that is not reached through an owner's attribute
Call(op, args, r, p) ==
    /\ Invoke(op, args, r, p)
    /\ UNCHANGED owner

\* the indices of the container and one past them at each end
Indices == (-Len(self) - 1)..Len(self)

\* the lists of at most two items
ShortLists == SeqsUpTo(Values, 2)

\* arguments of extend and +=: lists, and an int (which is not iterable)
Iterables ==
    {[kind |-> "list", val |-> v] : v \in ShortLists} \cup {[kind |-> "int", val |-> <<>>]}

\* multipliers of *=: integers, and a float
Multipliers ==
    {[kind |-> "int", val |-> n] : n \in (-1)..3} \cup {[kind |-> "float", val |-> 2]}

Optional(S) == {None} \cup {Some(k) : k \in S}

\* slices of test_delitem_slice and test_replacement_slices, and a zero step
TestSlices ==
    {slice(Some(1), Some(3), None), slice(Some(0), Some(5), Some(2)),
     slice(Some(4), Some(0), Some(-1)), slice(Some(1), Some(3), Some(0))}

\* the slices of test_delitem_slice
DelitemSlices ==
    {slice(Some(1), Some(2), None), slice(Some(1), Some(3), None),
     slice(Some(1), Some(4), Some(2)), slice(Some(0), Some(5), Some(2)),
     slice(Some(4), Some(0), Some(-1)), slice(Some(3), None, Some(-1)),
     slice(Some(3), None, Some(-2))}

\* every slice with bounds up to MaxLen and steps up to 2, either way
AllSlices ==
    {slice(start, stop, step) : start \in Optional((-MaxLen)..MaxLen),
                                stop \in Optional((-MaxLen)..MaxLen),
                                step \in Optional((-2)..2)}

\* the replacements of slice assignments, of every length up to MaxArg
Replacements == SeqsUpTo(Values, MaxArg)

DoAppend(item) ==
    Call("append", [NoArgs EXCEPT !.item = item], append(Begin, item),
            plain_append(PlainBegin, item))

DoInsert(index, item) ==
    Call("insert", [NoArgs EXCEPT !.index = index, !.item = item],
            insert(Begin, index, item), plain_insert(PlainBegin, index, item))

DoPop(index) ==
    Call("pop", [NoArgs EXCEPT !.index = index], pop(Begin, index),
            plain_pop(PlainBegin, index))

DoRemove(item) ==
    Call("remove", [NoArgs EXCEPT !.item = item], remove(Begin, item),
            plain_remove(PlainBegin, item))

DoClear ==
    Call("clear", NoArgs, clear(Begin), plain_clear(PlainBegin))

DoExtend(items) ==
    Call("extend", [NoArgs EXCEPT !.items = items.val, !.kind = items.kind],
            extend(Begin, items), plain_extend(PlainBegin, items))

DoIadd(items) ==
    Call("__iadd__", [NoArgs EXCEPT !.items = items.val, !.kind = items.kind],
            __iadd__(Begin, items), plain_iadd(PlainBegin, items))

DoImul(multiplier) ==
    Call("__imul__",
            [NoArgs EXCEPT !.multiplier = multiplier.val, !.kind = multiplier.kind],
            __imul__(Begin, multiplier), plain_imul(PlainBegin, multiplier))

DoDelitemInt(index) ==
    Call("__delitem__", [NoArgs EXCEPT !.index = index, !.kind = "int"],
            delitem_int(Begin, index), plain_delitem_int(PlainBegin, index))

DoSetitemInt(index, replacement) ==
    Call("__setitem__",
            [NoArgs EXCEPT !.index = index, !.item = replacement, !.kind = "int"],
            setitem_int(Begin, index, replacement),
            plain_setitem_int(PlainBegin, index, replacement))

DoDelitemSlice(index) ==
    Call("__delitem__", [NoArgs EXCEPT !.islice = index, !.kind = "slice"],
            delitem_slice(Begin, index), plain_delitem_slice(PlainBegin, index))

DoSetitemSlice(index, replacement) ==
    Call("__setitem__",
            [NoArgs EXCEPT !.islice = index, !.items = replacement, !.kind = "slice"],
            setitem_slice(Begin, index, replacement),
            plain_setitem_slice(PlainBegin, index, replacement))

\* ----------------------------------------------------------- construction
\* the names of the owner's attributes
AttrNames == {"list", "other"}

\* an attribute that was never assigned
Unset == "<unset>"

\* what an attribute can be bound to: the hookedup.List of the model ("L"),
\* another hookedup.List ("L2"), a plain list and None
Refs == {"L", "L2", "list", "None"}

\* isinstance(ref, List)
Hooked == {"L", "L2"}

\* an object without attributes of its own; attrs are its attributes, stmt
\* the last statement on one of them ("=", "+=" or "*="), exc and msg the
\* exception it ended with, attr_name, attr and was the name it assigned
\* to, the object it assigned ("" when it raised before assigning) and what
\* the name was bound to before
NewOwner ==
    [attrs |-> [a \in AttrNames |-> Unset], stmt |-> "", exc |-> "", msg |-> "",
     attr_name |-> "", attr |-> "", was |-> Unset]

\* L = hookedup.List(items, **config) for the given lists and configurations
Construct(lists, configs) ==
    /\ self \in lists
    /\ hook \in configs
    /\ plain = self
    /\ abort_stats = [n \in PreNames |-> 0]
    /\ count = [n \in PreNames |-> 0]
    /\ owner = NewOwner
    /\ iterator = Idle
    /\ last = [op |-> "__init__", args |-> NoArgs, pre |-> self,
               preStats |-> abort_stats, trace |-> <<>>,
               out |-> Outcome(Begin), plainOut |-> Outcome(PlainBegin)]

InitWith(configs) == Construct(SeqsUpTo(Values, MaxLen), configs)

\* ------------------------------------------------------ the attribute guard
Prohibited(attr_name) ==
    "Overwriting attribute \"" \o attr_name
        \o "\" of type <class 'hookedup.List'>prohibited"

\* super().__setattr__(attr_name, attr)
object_setattr(obj, attr_name, attr) ==
    [obj EXCEPT !.attrs[attr_name] = attr, !.exc = "", !.msg = "",
                !.attr_name = attr_name, !.attr = attr, !.was = obj.attrs[attr_name]]

\* __setattr__ without the test of the bound value's type
setattr_without_type_test(obj, attr_name, attr) ==
    object_setattr(obj, attr_name, attr)

\* PreventHookedupOverwriteReset.__setattr__
__setattr__(obj, attr_name, attr) ==
    LET original == obj.attrs[attr_name]
    IN  IF original = Unset THEN object_setattr(obj, attr_name, attr)
        ELSE IF original = attr THEN object_setattr(obj, attr_name, attr)
        ELSE IF original \in Hooked
        THEN [obj EXCEPT !.exc = "AttributeError", !.msg = Prohibited(attr_name),
                         !.attr_name = attr_name, !.attr = attr, !.was = original]
        ELSE object_setattr(obj, attr_name, attr)

\* owner.attr_name = attr
SetAttr(attr_name, attr) ==
    /\ owner' = [__setattr__(owner, attr_name, attr) EXCEPT !.stmt = "="]
    /\ UNCHANGED <<self, hook, abort_stats, plain, last, count, iterator>>

\* what an in-place operator hands to the assignment that follows it
Result(r) == IF r.retkind = "self" THEN "L" ELSE "None"

\* an in-place operator on the attribute attr_name: the method is called on
\* the bound container and, unless it raises, its result is assigned to the
\* attribute
InPlace(stmt, attr_name, r) ==
    /\ owner.attrs[attr_name] = "L"
    /\ owner' = IF r.exc # ""
                THEN [owner EXCEPT !.stmt = stmt, !.exc = r.exc, !.msg = r.msg,
                                   !.attr_name = attr_name, !.attr = "", !.was = "L"]
                ELSE [__setattr__(owner, attr_name, Result(r)) EXCEPT !.stmt = stmt]

\* owner.attr_name += items
OwnerIadd(attr_name, items) ==
    /\ Invoke("__iadd__", [NoArgs EXCEPT !.items = items.val, !.kind = items.kind],
                 __iadd__(Begin, items), plain_iadd(PlainBegin, items))
    /\ InPlace("+=", attr_name, __iadd__(Begin, items))

\* owner.attr_name *= multiplier
OwnerImul(attr_name, multiplier) ==
    /\ Invoke("__imul__",
                 [NoArgs EXCEPT !.multiplier = multiplier.val, !.kind = multiplier.kind],
                 __imul__(Begin, multiplier), plain_imul(PlainBegin, multiplier))
    /\ InPlace("*=", attr_name, __imul__(Begin, multiplier))

\* an owner whose attributes are assigned and updated in place
InitGuard == Construct(ShortLists, {NoHooks, Vetoing})

NextGuard ==
    \/ \E attr_name \in AttrNames, attr \in Refs : SetAttr(attr_name, attr)
    \/ \E attr_name \in AttrNames, items \in Iterables : OwnerIadd(attr_name, items)
    \/ \E attr_name \in AttrNames, multiplier \in Multipliers :
           OwnerImul(attr_name, multiplier)

SpecGuard == InitGuard /\ [][NextGuard]_vars

Init == InitWith(HookConfigs)

Next ==
    \/ \E item \in Values : DoAppend(item)
    \/ \E index \in Indices, item \in Values : DoInsert(index, item)
    \/ \E index \in Indices : DoPop(index)
    \/ \E item \in Values : DoRemove(item)
    \/ DoClear
    \/ \E items \in Iterables : DoExtend(items)
    \/ \E items \in Iterables : DoIadd(items)
    \/ \E multiplier \in Multipliers : DoImul(multiplier)
    \/ \E index \in Indices : DoDelitemInt(index)
    \/ \E index \in Indices, replacement \in Values : DoSetitemInt(index, replacement)
    \/ \E index \in TestSlices : DoDelitemSlice(index)
    \/ \E index \in TestSlices, replacement \in ShortLists :
           DoSetitemSlice(index, replacement)

Spec == Init /\ [][Next]_vars

\* every method, on containers whose hooks raise exceptions other than Abort
InitFail == InitWith(FailConfigs)

SpecFail == InitFail /\ [][Next]_vars

\* every method, on containers whose pre- hooks veto by item (pre_replace
\* the items equal to 1, pre_add and pre_remove those equal to 0) and on
\* containers whose post- hooks raise Abort
InitCount == InitWith({PerItem(1, 0), PostAborting})

SpecCount == InitCount /\ [][Next]_vars

\* one deletion from the list of setUp, without hooks (L) and with a
\* pre_remove hook that always vetoes (L2): by a slice of the test or of the
\* model, by an index, or of everything
InitSetUp == Construct({setUp_original}, {NoHooks, VetoRemoval})

NextSetUp ==
    \/ last.op = "__init__" /\ \E index \in DelitemSlices \cup AllSlices :
                                  DoDelitemSlice(index)
    \/ last.op = "__init__" /\ \E index \in Indices : DoDelitemInt(index)
    \/ last.op = "__init__" /\ DoClear

SpecSetUp == InitSetUp /\ [][NextSetUp]_vars

\* one operation on several items of a freshly built list, one of whose
\* hooks changes the list
InitReenter == InitWith(ReenterConfigs)

NextReenter ==
    \/ last.op = "__init__" /\ DoClear
    \/ last.op = "__init__" /\ \E index \in AllSlices : DoDelitemSlice(index)
    \/ last.op = "__init__" /\ \E index \in AllSlices, replacement \in Replacements :
                                  DoSetitemSlice(index, replacement)

SpecReenter == InitReenter /\ [][NextReenter]_vars

\* ----------------------------------- extend and += by the container itself
\* the length up to which the loop over the container itself is followed
SelfCap == 2 * MaxLen + 1

\* L.extend(L) or L += L begins: the argument passes the isinstance test of
\* extend and the for statement takes an iterator over it; the plain list
\* is extended by itself in one step
StartBySelf(op) ==
    LET p == IF op = "__iadd__"
             THEN plain_iadd(PlainBegin, [kind |-> "list", val |-> self])
             ELSE plain_extend(PlainBegin, [kind |-> "list", val |-> self])
    IN  /\ last.op = "__init__"
        /\ iterator' = 0
        /\ plain' = p.self
        /\ last' = [op |-> op, args |-> [NoArgs EXCEPT !.kind = "self"], pre |-> self,
                    preStats |-> abort_stats, trace |-> <<>>,
                    out |-> Outcome(Begin), plainOut |-> Outcome(p)]
        /\ UNCHANGED <<self, hook, abort_stats, count, owner>>

\* one round of "for item in items: self.append(item)": the iterator yields
\* the item at its position in the container as it is now
StepBySelf ==
    /\ iterator # Idle
    /\ iterator < Len(self)
    /\ Len(self) < SelfCap
    /\ LET r == append([Begin EXCEPT !.trace = last.trace], self[iterator + 1])
       IN  /\ self' = r.self
           /\ abort_stats' = r.stats
           /\ count' = [n \in PreNames |->
                           count[n] + AbortsRaised(r.trace, n)
                               - AbortsRaised(last.trace, n)]
           /\ last' = [last EXCEPT !.trace = r.trace, !.out = Outcome(r)]
           /\ iterator' = IF r.exc # "" THEN Idle ELSE iterator + 1
    /\ UNCHANGED <<hook, plain, owner>>

\* the iterator is exhausted: extend returns, and += returns the container
ReturnBySelf ==
    /\ iterator # Idle
    /\ ~(iterator < Len(self))
    /\ iterator' = Idle
    /\ last' = [last EXCEPT !.out = IF last.op = "__iadd__"
                                    THEN Outcome(Return(Begin, "self", 0))
                                    ELSE Outcome(Begin)]
    /\ UNCHANGED <<self, hook, abort_stats, plain, count, owner>>

\* no hook, hooks that return, pre- hooks that veto, and a pre_add hook that
\* holds the container at MaxLen items
SelfConfigs == {NoHooks, Counting, Vetoing, Hold(MaxLen)}

InitSelf == InitWith(SelfConfigs)

NextSelf ==
    \/ StartBySelf("extend")
    \/ StartBySelf("__iadd__")
    \/ StepBySelf
    \/ ReturnBySelf

SpecSelf == InitSelf /\ [][NextSelf]_vars

\* one slice delete or slice assignment on a freshly built list, for every
\* list, slice and replacement
Fresh == last.op = "__init__"

InitSlice == InitWith({NoHooks, Vetoing})

NextSlice ==
    \/ Fresh /\ \E index \in AllSlices : DoDelitemSlice(index)
    \/ Fresh /\ \E index \in AllSlices, replacement \in Replacements :
                    DoSetitemSlice(index, replacement)

SpecSlice == InitSlice /\ [][NextSlice]_vars

\* one call that handles several items on a freshly built list whose hooks
\* veto item by item
InitVeto == InitWith(VetoConfigs)

NextVeto ==
    \/ Fresh /\ \E index \in AllSlices : DoDelitemSlice(index)
    \/ Fresh /\ \E index \in AllSlices, replacement \in Replacements :
                    DoSetitemSlice(index, replacement)
    \/ Fresh /\ DoClear
    \/ Fresh /\ \E items \in Iterables : DoExtend(items)
    \/ Fresh /\ \E items \in Iterables : DoIadd(items)
    \/ Fresh /\ \E multiplier \in Multipliers : DoImul(multiplier)

SpecVeto == InitVeto /\ [][NextVeto]_vars

\* append, extend, += and *= n (n >= 1) on a container whose pre_add hook
\* holds the length at a capacity; the containers are the lists up to MaxLen
\* and the list of setUp, which is also the argument of += in test_iadd
InitHold == Construct(SeqsUpTo(Values, MaxLen) \cup {setUp_original}, HoldConfigs)

Offered == Iterables \cup {[kind |-> "list", val |-> setUp_original]}

Repetitions == {[kind |-> "int", val |-> n] : n \in 1..3}

NextHold ==
    \/ \E item \in Values : DoAppend(item)
    \/ \E items \in Offered : DoExtend(items)
    \/ \E items \in Offered : DoIadd(items)
    \/ \E multiplier \in Repetitions : DoImul(multiplier)

SpecHold == InitHold /\ [][NextHold]_vars

\* *= on a freshly built list, for every multiplier, under hooks that veto
\* item by item and under hooks that hold a capacity
InitImul == InitWith(VetoConfigs \cup HoldConfigs)

NextImul == Fresh /\ \E multiplier \in Multipliers : DoImul(multiplier)

SpecImul == InitImul /\ [][NextImul]_vars

\* ------------------------------------------------------ reading a call back
\* how many times the hook name was called during the last call
Calls(name) == Cardinality({k \in 1..Len(last.trace) : last.trace[k].name = name})

Called == last.op # "__init__"

IntIndexed == last.op = "pop" \/ (last.op \in {"__setitem__", "__delitem__"} /\ last.args.kind = "int")

SliceIndexed == last.op \in {"__setitem__", "__delitem__"} /\ last.args.kind = "slice"

\* the category of the last call, as the hook names spell it
AddOps == {"append", "insert", "extend", "__iadd__", "__imul__"}

RemoveOps == {"pop", "remove", "clear", "__delitem__"}

ReplaceOps == {"__setitem__"}

OpsOf(category) ==
    IF category = "add" THEN AddOps ELSE IF category = "remove" THEN RemoveOps ELSE ReplaceOps

Categories == {"add", "remove", "replace"}

\* C1: while the pre- hook of a category raises Abort on every call, a call
\* of that category invokes no post- hook of the category and leaves the
\* container's contents as they were
C1_AbortSuppressesPostAndChange ==
    \A c \in Categories :
        (last.op \in OpsOf(c) /\ hook["pre_" \o c] = "abort")
            => (Calls("post_" \o c) = 0 /\ self = last.pre)

\* C2: insert(index, item) inserts where a native insert would and calls
\* post_add once unless pre_add raises Abort; when pre_add raises Abort
\* nothing is inserted and post_add is not called
C2_InsertFollowsAppendProtocol ==
    last.op = "insert"
        => IF hook["pre_add"] = "abort"
           THEN self = last.pre /\ Calls("post_add") = 0
           ELSE self = list_insert(last.pre, last.args.index, last.args.item)
                    /\ Calls("post_add") = 1

\* the single-item calls of C3 and the category each belongs to
SingleItemCall ==
    \/ last.op \in {"append", "pop", "remove"}
    \/ last.op \in {"__setitem__", "__delitem__"} /\ last.args.kind = "int"

CategoryOfLast ==
    IF last.op = "append" THEN "add"
    ELSE IF last.op = "__setitem__" THEN "replace"
    ELSE "remove"

\* C3: a call of append, pop, remove, integer assignment or integer delete
\* whose pre- hook was called and did not raise Abort is exactly: the pre-
\* hook once, on the container as it was; the change of the storage; the
\* post- hook once, on the changed container
C3_PreThenMutateThenPost ==
    (SingleItemCall /\ Calls("pre_" \o CategoryOfLast) > 0
         /\ hook["pre_" \o CategoryOfLast] # "abort")
        => /\ Len(last.trace) = 3
           /\ last.trace[1].name = "pre_" \o CategoryOfLast
           /\ last.trace[1].seen = last.pre
           /\ last.trace[2].name = "mutate"
           /\ last.trace[2].seen = plain
           /\ last.trace[3].name = "post_" \o CategoryOfLast
           /\ last.trace[3].seen = plain
           /\ self = plain

C3_Witness ==
    /\ last.op = "pop" /\ hook = Counting
    /\ Len(last.trace) = 3 /\ Len(self) = Len(last.pre) - 1

\* C4: a container without hooks and a plain list equal before a call are
\* equal after it, and the call returned or raised the same on both
C4_NoHooksBehavesAsPlainList ==
    (Called /\ hook = NoHooks)
        => /\ self = plain
           /\ last.out.exc = last.plainOut.exc
           /\ last.out.retkind = last.plainOut.retkind
           /\ last.out.retval = last.plainOut.retval

\* C5: pop(index) on a valid index returns the item that was at index (the
\* post- hook returning): the container is unchanged and post_remove not
\* called when pre_remove raised Abort, and is the old one without that
\* position otherwise
C5_PopReturnsTheItem ==
    (last.op = "pop" /\ InRange(last.pre, last.args.index)
         /\ hook["post_remove"] # "abort")
        => /\ last.out.exc = ""
           /\ last.out.retkind = "item"
           /\ last.out.retval = At(last.pre, last.args.index)
           /\ IF hook["pre_remove"] = "abort"
              THEN /\ self = last.pre
                   /\ Calls("post_remove") = 0
              ELSE self = list_delitem(last.pre, last.args.index)

C5_Witness ==
    /\ last.op = "pop" /\ hook["pre_remove"] = "abort"
    /\ Len(last.pre) > 1 /\ last.args.index = 0
    /\ last.out.retkind = "item" /\ self = last.pre

\* C6: pop, integer assignment and integer delete with an index outside
\* [-k, k) raise IndexError, call no hook and change neither the contents
\* nor the abort counters
C6_OutOfRangeRaisesBeforeHooks ==
    (IntIndexed /\ ~InRange(last.pre, last.args.index))
        => /\ last.out.exc = "IndexError"
           /\ last.trace = <<>>
           /\ self = last.pre
           /\ abort_stats = last.preStats

C6_Witness ==
    /\ last.op = "__setitem__" /\ last.args.kind = "int"
    /\ Len(last.pre) > 0 /\ last.args.index = Len(last.pre)
    /\ hook = Vetoing /\ last.out.exc = "IndexError"

\* the validation errors of C7: the error each invalid call must raise
Extended(sl) == sl.step # None /\ sl.step # Some(1)

InvalidCall ==
    IF last.op = "remove" /\ ~Contains(last.pre, last.args.item) THEN "ValueError"
    ELSE IF last.op \in {"extend", "__iadd__"} /\ last.args.kind # "list" THEN "TypeError"
    ELSE IF last.op = "__imul__" /\ last.args.kind # "int" THEN "TypeError"
    ELSE IF SliceIndexed /\ last.args.islice.step = Some(0) THEN "ValueError"
    ELSE IF /\ SliceIndexed /\ last.op = "__setitem__" /\ Extended(last.args.islice)
            /\ Len(last.args.items) # Len(list_getslice(last.pre, last.args.islice))
    THEN "ValueError"
    ELSE ""

\* C7: remove of an absent item, extend / += of a non-iterable, *= by a
\* non-integer, a slice step of 0 and an extended-slice assignment of the
\* wrong length raise before any hook is called and before anything changes
C7_ValidationBeforeHooks ==
    (Called /\ InvalidCall # "")
        => /\ last.out.exc = InvalidCall
           /\ last.trace = <<>>
           /\ self = last.pre
           /\ abort_stats = last.preStats

C7_Witness ==
    /\ last.op = "__setitem__" /\ last.args.kind = "slice"
    /\ last.args.islice.step = Some(2)
    /\ Len(list_getslice(last.pre, last.args.islice)) = 2
    /\ Len(last.args.items) = 1
    /\ hook = Counting /\ last.out.exc = "ValueError"

\* C8 as stated: no call ends with an Abort reaching the caller
C8_AbortNeverReachesCaller == last.out.exc # "Abort"

\* C8 as amended: an Abort reaches the caller only from a post- hook, after
\* the change that hook reports was applied; the change stays, the call ends
\* there, and an Abort of a pre- hook never reaches the caller
C8_OnlyPostHookAbortReachesCaller ==
    /\ last.out.exc = "Abort"
           => LET n == Len(last.trace)
              IN  /\ n >= 2
                  /\ last.trace[n].name \in PostNames
                  /\ hook[last.trace[n].name] = "abort"
                  /\ last.trace[n - 1].name = "mutate"
                  /\ last.trace[n - 1].seen = self
                  /\ \A k \in 1..(n - 1) : last.trace[k].name \notin PostNames
    /\ (Called /\ \A name \in PostNames : hook[name] # "abort")
           => last.out.exc # "Abort"

C8_Witness ==
    /\ last.op = "clear" /\ Len(last.pre) = 2
    /\ last.out.exc = "Abort" /\ Len(self) = 1

\* C9: without hooks a slice assignment leaves the container as the same
\* assignment leaves a plain list, and when the plain list rejects it the
\* same error with the same message is raised and nothing changes
C9_SliceAssignmentAsPlainList ==
    (hook = NoHooks /\ last.op = "__setitem__" /\ last.args.kind = "slice")
        => IF last.plainOut.exc = ""
           THEN last.out.exc = "" /\ self = plain
           ELSE /\ last.out.exc = last.plainOut.exc
                /\ last.out.msg = last.plainOut.msg
                /\ self = last.pre

C9_Witness ==
    /\ hook = NoHooks /\ last.op = "__setitem__" /\ last.args.kind = "slice"
    /\ last.args.islice.step = Some(-1)
    /\ Len(last.args.items) = 2 /\ last.args.items[1] # last.args.items[2]
    /\ last.out.exc = "" /\ self # last.pre

\* C10: a slice delete without hooks leaves the container as the same delete
\* leaves a plain list; with a pre_remove hook that always raises Abort it
\* changes nothing and counts as many aborts as the plain list lost items
C10_SliceDelete ==
    (last.op = "__delitem__" /\ last.args.kind = "slice")
        => /\ hook = NoHooks => self = plain /\ last.out.exc = last.plainOut.exc
           /\ hook = Vetoing
                  => /\ self = last.pre
                     /\ abort_stats["pre_remove"]
                            = last.preStats["pre_remove"] + Len(last.pre) - Len(plain)

C10_Witness ==
    /\ last.op = "__delitem__" /\ last.args.kind = "slice" /\ hook = Vetoing
    /\ last.args.islice.step = Some(-2)
    /\ abort_stats["pre_remove"] = 2 /\ self = last.pre

\* ------------------------------------------------- item-by-item decisions
\* the pre- hook name raises Abort when called with args (the hooks that
\* decide item by item do not look at the container)
Vetoes(name, args) == HookRaises(name, last.pre, args) = "Abort"

\* the calls of the hooks in names during the last call, in order, each as
\* <<hook name, arguments>>
HookCalls(names) ==
    LET es == SelectSeq(last.trace, LAMBDA e : e.name \in names)
    IN  [k \in 1..Len(es) |-> <<es[k].name, es[k].args>>]

\* the post- hook of a pre- hook
PostOf(name) ==
    IF name = "pre_add" THEN "post_add"
    ELSE IF name = "pre_remove" THEN "post_remove"
    ELSE "post_replace"

\* the post- hook calls that follow from a sequence of pre- hook calls: one
\* for each call that was not vetoed, with the same arguments
PostCallsOf(pres) ==
    LET kept == SelectSeq(pres, LAMBDA c : ~Vetoes(c[1], c[2]))
    IN  [k \in 1..Len(kept) |-> <<PostOf(kept[k][1]), kept[k][2]>>]

\* a slice delete or slice assignment that passed validation: its slice,
\* its replacement (none for a delete), the positions the slice selects and
\* how many of them are paired with a replacement item
SliceCallDecided == SliceIndexed /\ InvalidCall = ""

SliceRepl == IF last.op = "__setitem__" THEN last.args.items ELSE <<>>

SlicePositions == Range(slice_indices(last.args.islice, Len(last.pre)))

SlicePaired == Min(Len(SlicePositions), Len(SliceRepl))

\* the container after the paired positions were decided one by one
SliceAfterReplace ==
    [k \in 1..Len(last.pre) |->
        IF \E j \in 1..SlicePaired :
               /\ SlicePositions[j] + 1 = k
               /\ ~Vetoes("pre_replace", <<last.pre[k], SliceRepl[j]>>)
        THEN SliceRepl[CHOOSE j \in 1..SlicePaired : SlicePositions[j] + 1 = k]
        ELSE last.pre[k]]

\* the surplus selected positions whose element pre_remove does not veto
SliceRemoved ==
    {SlicePositions[j] : j \in {i \in (SlicePaired + 1)..Len(SlicePositions) :
        ~Vetoes("pre_remove", <<last.pre[SlicePositions[i] + 1]>>)}}

\* the surplus replacement items pre_add does not veto, in their order
SliceInserted ==
    SelectSeq(SubSeq(SliceRepl, SlicePaired + 1, Len(SliceRepl)),
              LAMBDA v : ~Vetoes("pre_add", <<v>>))

\* just past the last paired position, the slice's start when there is none
SliceInsertAt ==
    IF SlicePaired > 0 THEN SlicePositions[SlicePaired] + 1
    ELSE slice_indices(last.args.islice, Len(last.pre))[1]

\* the container after every item was decided independently
SliceDecided ==
    IF Len(SlicePositions) > Len(SliceRepl)
    THEN Without(SliceAfterReplace, SliceRemoved)
    ELSE IF Len(SlicePositions) < Len(SliceRepl)
    THEN SubSeq(SliceAfterReplace, 1, SliceInsertAt) \o SliceInserted
             \o SubSeq(SliceAfterReplace, SliceInsertAt + 1, Len(last.pre))
    ELSE SliceAfterReplace

\* one pre- hook call for each affected item, in the slice's direction
SlicePreCalls ==
    [j \in 1..SlicePaired |->
        <<"pre_replace", <<last.pre[SlicePositions[j] + 1], SliceRepl[j]>> >>]
    \o [j \in 1..(Len(SlicePositions) - SlicePaired) |->
        <<"pre_remove", <<last.pre[SlicePositions[SlicePaired + j] + 1]>> >>]
    \o [j \in 1..(Len(SliceRepl) - SlicePaired) |->
        <<"pre_add", <<SliceRepl[SlicePaired + j]>> >>]

\* C11: in a slice delete or slice assignment under hooks that veto item by
\* item, every paired position is replaced iff its pre_replace did not abort,
\* every surplus selected element is removed iff its pre_remove did not
\* abort, every surplus replacement item is inserted just past the last
\* replaced index, in order, iff its pre_add did not abort; each affected
\* item gets exactly one pre- hook call, in the slice's direction, and one
\* post- hook call iff it was not vetoed
C11_EachItemDecidedIndependently ==
    SliceCallDecided
        => /\ last.out.exc = ""
           /\ self = SliceDecided
           /\ HookCalls(PreNames) = SlicePreCalls
           /\ HookCalls(PostNames) = PostCallsOf(SlicePreCalls)

C11_Witness ==
    /\ last.op = "__delitem__" /\ last.args.kind = "slice"
    /\ last.args.islice.step = Some(-1)
    /\ last.pre = <<0, 1, 0>> /\ hook["pre_remove"] = AbortOn(1)
    /\ self = <<1>> /\ Len(HookCalls(PreNames)) = 3

\* ------------------------------------------------------ holding a capacity
\* the pre_add calls of the last call made while the container held k items
\* or more
OfferedWhileFull(k) ==
    Cardinality({j \in 1..Len(last.trace) :
                    last.trace[j].name = "pre_add" /\ Len(last.trace[j].seen) >= k})

\* the items the last call offered to pre_add
ItemsOffered ==
    IF last.op = "append" THEN 1
    ELSE IF last.op \in {"extend", "__iadd__"} THEN Len(last.args.items)
    ELSE IF last.op = "__imul__" THEN (last.args.multiplier - 1) * Len(last.pre)
    ELSE 0

\* the k of the container's pre_add hook
Capacity == CHOOSE k \in Capacities : hook = Hold(k)

\* what C12 says of each state: the counter of pre_add is the number of
\* Aborts the hook has raised since construction, each call adds to it the
\* offers it made while the length was >= k, every other offered item was
\* added, and += of [0,1,2,3] to [0,1,2,3] with k = 4 changes nothing and
\* adds 4 to the counter
HoldsAt(k) ==
    hook = Hold(k)
        => /\ abort_stats["pre_add"] = count["pre_add"]
           /\ last.out.exc = ""
                  => /\ Calls("pre_add") = ItemsOffered
                     /\ abort_stats["pre_add"]
                            = last.preStats["pre_add"] + OfferedWhileFull(k)
                     /\ Len(self) = Len(last.pre) + ItemsOffered - OfferedWhileFull(k)
           /\ (/\ k = 4 /\ last.op = "__iadd__" /\ last.pre = <<0, 1, 2, 3>>
               /\ last.args.kind = "list" /\ last.args.items = <<0, 1, 2, 3>>)
                  => /\ self = last.pre
                     /\ abort_stats["pre_add"] = last.preStats["pre_add"] + 4

\* C12: with a pre_add hook that raises Abort exactly when the length is
\* >= k, from any point where the length is L0 on, no sequence of append,
\* extend, += and *= n (n >= 1) makes the length exceed max(k, L0), and the
\* pre_add abort counter is the number of items offered while the length
\* was >= k
C12_HoldOnlyKItems ==
    /\ [](\A k \in Capacities : HoldsAt(k))
    /\ \A L0 \in 0..(MaxLen + 1) :
           [](Len(self) = L0 => [](Len(self) <= Max(Capacity, L0)))

C12_Witness ==
    /\ hook = Hold(4) /\ last.op = "__iadd__"
    /\ last.pre = <<0, 1, 2, 3>> /\ last.args.items = <<0, 1, 2, 3>>
    /\ self = <<0, 1, 2, 3>>
    /\ last.preStats["pre_add"] = 4 /\ abort_stats["pre_add"] = 8

\* one pre_remove call for each element present at the call, front to back
ClearPreCalls == [k \in 1..Len(last.pre) |-> <<"pre_remove", <<last.pre[k]>> >>]

\* C13: clear() under a pre_remove hook that vetoes some items and does not
\* change the container ends without an exception, calls pre_remove once for
\* each element present at the call, front to back, removes the elements
\* whose call did not abort (post_remove once each) and leaves the vetoed
\* elements in their order
C13_ClearDecidesEachElementOnce ==
    last.op = "clear"
        => /\ last.out.exc = ""
           /\ HookCalls(PreNames) = ClearPreCalls
           /\ HookCalls(PostNames) = PostCallsOf(ClearPreCalls)
           /\ self = SelectSeq(last.pre, LAMBDA v : Vetoes("pre_remove", <<v>>))
           /\ abort_stats["pre_remove"] = last.preStats["pre_remove"] + Len(self)

C13_Witness ==
    /\ last.op = "clear" /\ last.pre = <<1, 0, 1>>
    /\ hook["pre_remove"] = AbortOn(1)
    /\ self = <<1, 1>> /\ Calls("pre_remove") = 3 /\ Calls("post_remove") = 1

\* one pre_add call for each item of the argument, in iteration order
ExtendPreCalls ==
    [k \in 1..Len(last.args.items) |-> <<"pre_add", <<last.args.items[k]>> >>]

\* C14: extend(items) and += items call pre_add once for each item, in
\* order, and leave the old contents followed by the items whose pre_add
\* did not abort (post_add once each), in their order; += evaluates to the
\* container it was applied to
C14_ExtendOffersItemsOneByOne ==
    (last.op \in {"extend", "__iadd__"} /\ last.args.kind = "list")
        => /\ last.out.exc = ""
           /\ HookCalls(PreNames) = ExtendPreCalls
           /\ HookCalls(PostNames) = PostCallsOf(ExtendPreCalls)
           /\ self = last.pre \o SelectSeq(last.args.items,
                                          LAMBDA v : ~Vetoes("pre_add", <<v>>))
           /\ last.op = "__iadd__" => last.out.retkind = "self"

C14_Witness ==
    /\ last.op = "__iadd__" /\ last.args.items = <<0, 1>>
    /\ hook["pre_add"] = AbortOn(0) /\ Len(last.pre) = 1
    /\ self = Append(last.pre, 1) /\ last.out.retkind = "self"

\* the container as it was when the last call started, ready for a call
Before == [Begin EXCEPT !.self = last.pre, !.stats = last.preStats]

\* the items *= n offers: the snapshot, n - 1 times over
ImulOffered == Repeat(last.pre, last.args.multiplier - 1)

ImulPreCalls == [k \in 1..Len(ImulOffered) |-> <<"pre_add", <<ImulOffered[k]>> >>]

\* the pre- hook calls of the last call that did not raise Abort
Passed ==
    SelectSeq(last.trace,
              LAMBDA e : e.name \in PreNames
                             /\ HookRaises(e.name, e.seen, e.args) # "Abort")

\* C15: *= n with an integer n >= 1 offers to pre_add exactly the items of
\* the contents captured at the call, n - 1 times over, and adds the ones
\* that are not vetoed, so that without vetoes the container ends as the
\* snapshot repeated n times and n = 1 changes nothing and calls no hook;
\* with n <= 0 the contents, the hook calls and the abort counters end as
\* clear() leaves them
C15_ImulWorksOnASnapshot ==
    (last.op = "__imul__" /\ last.args.kind = "int")
        => IF last.args.multiplier >= 1
           THEN /\ last.out.exc = ""
                /\ HookCalls(PreNames) = ImulPreCalls
                /\ HookCalls(PostNames)
                       = [k \in 1..Len(Passed) |-> <<"post_add", Passed[k].args>>]
                /\ self = last.pre \o [k \in 1..Len(Passed) |-> Passed[k].args[1]]
                /\ Len(Passed) = Len(ImulOffered)
                       => self = Repeat(last.pre, last.args.multiplier)
                /\ last.args.multiplier = 1
                       => self = last.pre /\ last.trace = <<>>
           ELSE /\ self = clear(Before).self
                /\ last.trace = clear(Before).trace
                /\ abort_stats = clear(Before).stats
                /\ last.out.exc = clear(Before).exc

C15_Witness ==
    /\ last.op = "__imul__" /\ last.args.kind = "int" /\ last.args.multiplier = 3
    /\ last.pre = <<1>> /\ hook["pre_add"] = HoldOnly(2)
    /\ self = <<1, 1>> /\ Calls("pre_add") = 2 /\ abort_stats["pre_add"] = 1

\* ------------------------------------------------------ the attribute guard
\* the last statement was += with an iterable or *= with an integer, on an
\* attribute bound to the hooked container
InPlaceUpdate ==
    \/ owner.stmt = "+=" /\ last.args.kind = "list"
    \/ owner.stmt = "*=" /\ last.args.kind = "int"

\* C16: owner.attr += items (an iterable) and owner.attr *= n (an integer)
\* on an attribute bound to a hooked container end without the
\* overwrite-prohibited error and leave the attribute bound to that container
C16_InPlaceOperatorsKeepTheBinding ==
    InPlaceUpdate
        => /\ owner.exc # "AttributeError"
           /\ owner.attrs[owner.attr_name] = "L"
           /\ owner.attr = "L"

\* the last statement reached the assignment of the attribute
Assigned == owner.stmt # "" /\ owner.attr # ""

\* C17: the first assignment to a name succeeds; while a name is bound to a
\* hooked container an assignment of another object raises the
\* overwrite-prohibited error and leaves the binding, and an assignment of
\* the same object succeeds; a name bound to anything else is reassigned
\* freely; hence a name bound to a hooked container stays bound to it
C17_HookedAttributeStaysBound ==
    /\ [](Assigned
            => IF owner.was \in Hooked /\ owner.attr # owner.was
               THEN /\ owner.exc = "AttributeError"
                    /\ owner.msg = Prohibited(owner.attr_name)
                    /\ owner.attrs[owner.attr_name] = owner.was
               ELSE /\ owner.exc = ""
                    /\ owner.attrs[owner.attr_name] = owner.attr)
    /\ [][\A a \in AttrNames :
              owner.attrs[a] \in Hooked => owner'.attrs[a] = owner.attrs[a]]_vars

C17_Witness ==
    /\ owner.stmt = "=" /\ owner.attr_name = "list"
    /\ owner.was = "L" /\ owner.attr = "L2"
    /\ owner.exc = "AttributeError" /\ owner.attrs["list"] = "L"
    /\ owner.attrs["other"] = "None"

\* ------------------------------------------------------- failures of hooks
\* the k-th event of the last call is a hook call that raised an exception
\* other than Abort
Failed(k) ==
    /\ last.trace[k].name \in keywords
    /\ HookRaises(last.trace[k].name, last.trace[k].seen, last.trace[k].args)
           = "HookError"

\* C18: an exception other than Abort raised by a hook ends the call and
\* reaches the caller as it is. Raised by a pre- hook, the container stays
\* as that hook saw it and no change or post- hook follows; raised by a
\* post- hook, the change that hook reports stays applied. Nothing done for
\* earlier items is undone, and the abort counters count the Aborts only
C18_HookFailureReachesCaller ==
    /\ \A k \in 1..Len(last.trace) :
           Failed(k)
               => /\ k = Len(last.trace)
                  /\ last.out.exc = "HookError"
                  /\ self = last.trace[k].seen
                  /\ last.trace[k].name \in PostNames
                         => /\ k > 1
                            /\ last.trace[k - 1].name = "mutate"
                            /\ last.trace[k - 1].seen = self
                  /\ \A n \in PreNames :
                         abort_stats[n] = last.preStats[n] + AbortsRaised(last.trace, n)
                  /\ (\A n \in PreNames : AbortsRaised(last.trace, n) = 0)
                         => abort_stats = last.preStats
    /\ last.out.exc = "HookError"
           => Len(last.trace) > 0 /\ Failed(Len(last.trace))

C18_Witness ==
    /\ last.op = "clear" /\ last.pre = <<0, 1, 1>>
    /\ hook = Uniform(AbortOn(0), FailOn(1))
    /\ last.out.exc = "HookError" /\ self = <<0, 1>>
    /\ abort_stats["pre_remove"] = last.preStats["pre_remove"] + 1

\* ------------------------------------------------------- the abort counters
\* the last call once more, on the record st of a container
Again(st) ==
    LET a == last.args
    IN  CASE last.op = "append" -> append(st, a.item)
          [] last.op = "insert" -> insert(st, a.index, a.item)
          [] last.op = "pop" -> pop(st, a.index)
          [] last.op = "remove" -> remove(st, a.item)
          [] last.op = "clear" -> clear(st)
          [] last.op = "extend" -> extend(st, [kind |-> a.kind, val |-> a.items])
          [] last.op = "__iadd__" -> __iadd__(st, [kind |-> a.kind, val |-> a.items])
          [] last.op = "__imul__" ->
                __imul__(st, [kind |-> a.kind, val |-> a.multiplier])
          [] last.op = "__delitem__" /\ a.kind = "int" -> delitem_int(st, a.index)
          [] last.op = "__delitem__" /\ a.kind = "slice" -> delitem_slice(st, a.islice)
          [] last.op = "__setitem__" /\ a.kind = "int" ->
                setitem_int(st, a.index, a.item)
          [] last.op = "__setitem__" /\ a.kind = "slice" ->
                setitem_slice(st, a.islice, a.items)
          [] OTHER -> st

\* counters a call can start with: each at zero or at the most explored
Counters == [PreNames -> {0, Max(MaxAborts, 2)}]

\* the last call does what it did whatever the counters were when it started
SameWhateverTheCounters ==
    \A stats \in Counters :
        LET r == Again([Before EXCEPT !.stats = stats])
        IN  /\ r.self = self
            /\ r.trace = last.trace
            /\ Outcome(r) = last.out
            /\ \A n \in PreNames :
                   r.stats[n] - stats[n] = abort_stats[n] - last.preStats[n]

\* C19: the abort counter of each pre- hook is the number of times that hook
\* raised Abort since construction. It never decreases; a call adds one per
\* Abort its pre- hooks raise and nothing else, so calls without a veto,
\* post- hooks (also when they raise Abort) and validation errors leave it
\* alone; and a call does the same whatever the counters are
C19_AbortCounterCountsVetoes ==
    /\ [](abort_stats = count)
    /\ [](\A n \in PreNames :
             abort_stats[n] = last.preStats[n] + AbortsRaised(last.trace, n))
    /\ [](InvalidCall # "" \/ last.out.exc \in {"IndexError", "ValueError", "TypeError"}
             => abort_stats = last.preStats)
    /\ [](Called => SameWhateverTheCounters)
    /\ [][\A n \in PreNames : abort_stats'[n] >= abort_stats[n]]_vars

C19_Witness ==
    /\ last.op = "clear" /\ last.pre = <<0, 1, 0>>
    /\ hook = PerItem(1, 0)
    /\ last.preStats["pre_replace"] = 1
    /\ self = <<0, 0>> /\ abort_stats["pre_remove"] = 2
    /\ count = [pre_add |-> 0, pre_remove |-> 2, pre_replace |-> 1]

\* --------------------------------------- a vetoed delete of the slice [4:0:-1]
\* del L2[4:0:-1] on the L2 of test_delitem_slice
VetoedReverseDelete ==
    /\ last.op = "__delitem__" /\ last.args.kind = "slice"
    /\ last.args.islice = slice(Some(4), Some(0), Some(-1))
    /\ last.pre = setUp_original
    /\ hook = VetoRemoval

\* C20 as stated: the container [0,1,2,3] is unchanged and the pre_remove
\* abort counter equals 4
C20_CounterIsFour ==
    VetoedReverseDelete
        => self = setUp_original /\ abort_stats["pre_remove"] = 4

\* C20, amended: deleting [4:0:-1] from [0,1,2,3] under a pre_remove hook
\* that always raises Abort leaves the container unchanged, and the
\* pre_remove abort counter equals 3, the number of elements the slice
\* selects (3, 2 and 1, offered in that order) and a list without hooks loses
C20_CounterIsWhatTheSliceSelects ==
    VetoedReverseDelete
        => /\ self = setUp_original
           /\ last.out = [exc |-> "", msg |-> "", retkind |-> "None", retval |-> 0]
           /\ abort_stats = [pre_add |-> 0, pre_remove |-> 3, pre_replace |-> 0]
           /\ abort_stats["pre_remove"] = Len(last.pre) - Len(plain)
           /\ plain = <<0>>
           /\ HookCalls(keywords)
                  = << <<"pre_remove", <<3>> >>, <<"pre_remove", <<2>> >>,
                       <<"pre_remove", <<1>> >> >>

C20_Witness ==
    /\ VetoedReverseDelete
    /\ self = setUp_original
    /\ abort_stats["pre_remove"] = 3

\* ------------------------------------------------ the text of bounds errors
\* C21: pop, integer assignment and integer delete with an index out of
\* range raise the error a plain list raises for the same call on the same
\* contents, kind and message alike, also for pop on an empty container
C21_BoundsErrorAsPlainList ==
    (IntIndexed /\ ~InRange(last.pre, last.args.index))
        => /\ last.out.exc = last.plainOut.exc
           /\ last.out.msg = last.plainOut.msg

\* ------------------------------------------- hooks that change the container
\* C22: clear, slice delete and slice assignment under a hook that changes
\* the container go on from the container as the hook left it: with valid
\* arguments they end without an exception (no hook here raises one), and
\* clear leaves the container empty
C22_OuterOperationCompletesOnLiveState ==
    (hook \in ReenterConfigs /\ Called /\ InvalidCall = "")
        => /\ last.out.exc = ""
           /\ last.op = "clear" => self = <<>>

\* ----------------------------------- extend and += by the container itself
BySelf == last.op \in {"extend", "__iadd__"} /\ last.args.kind = "self"

\* C23: L.extend(L) and L += L end, and without a vetoing pre_add hook they
\* end as on a plain list: the loop offers the items the container held when
\* the call began and no more, and after the return the container holds
\* those items twice and the outcome is the plain list's
C23_ExtendBySelfTerminates ==
    (BySelf /\ hook \in {NoHooks, Counting})
        => /\ iterator # Idle
                  => /\ iterator <= Len(last.pre)
                     /\ iterator = Len(last.pre) => ~(iterator < Len(self))
           /\ iterator = Idle
                  => /\ self = last.pre \o last.pre
                     /\ self = plain
                     /\ last.out = last.plainOut

====
